---- MODULE Spec2Model ----
(***************************************************************************)
(* A model of fake_supercell_radar.py: the colour-table classifier, the    *)
(* five field generators, the gate-to-gate shear overlay, the frame        *)
(* compositor and the frame driver of main().                              *)
(*                                                                         *)
(* Physical values (reflectivity, velocity, ZDR, CC, SW) are held in       *)
(* tenths of their unit, so that every bound of the five colour tables is  *)
(* an integer: -0.5 is -5, 0.6 is 6, 80 is 800.                            *)
(***************************************************************************)
EXTENDS Integers, Sequences, FiniteSets, TLC

VARIABLES
  \* ---- get_color_from_table called on its own
  arg_value, arg_table, ret_color,
  \* ---- the shared random source (module random)
  rng,
  \* ---- lobe placement of generate_reflectivity_image called twice
  lobe_args, lobe_calls, rng_before, lobe_result, prev_result,
  \* ---- one call of a field generator, seen at one pixel of the canvas
  gen_pc, gen_product, gen_stage, gen_intensity, gen_rotation,
  active_radius, lobe_centers, hook_lobe, probe, cursor, pixel, val,
  \* ---- main()
  pc, argv, stage, intensity, product, polygon_enabled, gif_mode,
  frames_count, attrs, i, rotation_angle, gen_log, radar_in, overlay,
  radar_img, images, combined, draw, panel_log, poly_log, frames, saved, error

classVars == <<arg_value, arg_table, ret_color>>
lobeVars  == <<lobe_args, lobe_calls, rng_before, lobe_result, prev_result>>
fieldVars == <<gen_pc, gen_product, gen_stage, gen_intensity, gen_rotation,
               active_radius, lobe_centers, hook_lobe, probe, cursor, pixel, val>>
mainVars  == <<pc, argv, stage, intensity, product, polygon_enabled, gif_mode,
               frames_count, attrs, i, rotation_angle, gen_log, radar_in, overlay,
               radar_img, images, combined, draw, panel_log, poly_log, frames, saved, error>>
vars == <<classVars, rng, lobeVars, fieldVars, mainVars>>

(***************************************************************************)
(* Bounds of the model.                                                    *)
(***************************************************************************)
\* largest --frames argument tried
MaxFrames == 3
\* longest colour table, and largest bin bound, of the generated tables
MaxBins == 2
MaxBound == 2
\* how far from an anchor point (canvas centre, lobe centre, rim of the
\* active disc, canvas corner) the observed pixel is taken
ProbeSpan == 4
\* the process starts with the random source seeded from one of
\* 0..MaxEntropySeed
MaxEntropySeed == 1
\* width of the raster handed to add_gtg_shear_overlay
MaxImgWidth == 3
\* calls of the lobe placement with the same arguments
MaxCalls == 2

(***************************************************************************)
(* Constants of the program.                                               *)
(***************************************************************************)
WIDTH == 768
HEIGHT == 768
CENTER_X == WIDTH \div 2
CENTER_Y == HEIGHT \div 2

REFLECTIVITY_COLORS ==
  << <<0, 50, <<0, 0, 0>>>>,
     <<50, 200, <<0, 100, 0>>>>,
     <<200, 300, <<255, 255, 0>>>>,
     <<300, 400, <<255, 165, 0>>>>,
     <<400, 500, <<255, 0, 0>>>>,
     <<500, 600, <<139, 0, 0>>>>,
     <<600, 800, <<128, 0, 128>>>> >>

VELOCITY_COLORS ==
  << <<-1200, -600, <<0, 0, 139>>>>,
     <<-600, -400, <<0, 0, 255>>>>,
     <<-400, -200, <<135, 206, 235>>>>,
     <<-200, 0, <<255, 255, 255>>>>,
     <<0, 200, <<255, 182, 193>>>>,
     <<200, 400, <<255, 105, 180>>>>,
     <<400, 1200, <<255, 20, 147>>>> >>

ZDR_COLORS ==
  << <<-20, -5, <<128, 0, 128>>>>,
     <<-5, 5, <<255, 255, 255>>>>,
     <<5, 20, <<255, 165, 0>>>> >>

CC_COLORS ==
  << <<0, 6, <<255, 0, 0>>>>,
     <<6, 9, <<255, 165, 0>>>>,
     <<9, 10, <<0, 255, 0>>>> >>

SW_COLORS ==
  << <<0, 10, <<0, 255, 0>>>>,
     <<10, 20, <<255, 255, 0>>>>,
     <<20, 50, <<255, 0, 0>>>> >>

Products == {"REFLECTIVITY", "VELOCITY", "ZDR", "CC", "SW"}

Min(a, b) == IF a < b THEN a ELSE b
Max(a, b) == IF a > b THEN a ELSE b
Abs(a) == IF a < 0 THEN -a ELSE a

\* int(a / b) of Python for integers a and b > 0: the quotient cut towards zero
TruncDiv(a, b) == IF a >= 0 THEN a \div b ELSE -((-a) \div b)

(***************************************************************************)
(* get_color_from_table                                                    *)
(***************************************************************************)
NoColor == <<>>

InBinMutant(low, high, value) == low < value /\ value <= high

\* the test of one bin: low <= value < high
InBin(low, high, value) == low <= value /\ value < high

RECURSIVE ScanBins(_, _, _)
ScanBins(value, color_table, k) ==
  IF k > Len(color_table) THEN color_table[Len(color_table)][3]
  ELSE IF InBin(color_table[k][1], color_table[k][2], value) THEN color_table[k][3]
  ELSE ScanBins(value, color_table, k + 1)

get_color_from_table(value, color_table) == ScanBins(value, color_table, 1)

\* ---- the classifier on its own: tables and values it is tried on
ProgramTables ==
  {REFLECTIVITY_COLORS, VELOCITY_COLORS, ZDR_COLORS, CC_COLORS, SW_COLORS}

\* every table of at most MaxBins bins with bounds in 0..MaxBound, overlapping
\* and empty bins included; bin k has the colour <<k, k, k>>
SmallTables ==
  UNION { { [k \in 1..n |-> <<b[k][1], b[k][2], <<k, k, k>>>>] :
              b \in [1..n -> (0..MaxBound) \X (0..MaxBound)] } : n \in 1..MaxBins }

TableBounds(t) == {t[k][1] : k \in 1..Len(t)} \cup {t[k][2] : k \in 1..Len(t)}

\* around every bound of the table, and far outside it
ValuesFor(t) ==
  UNION {{b - 1, b, b + 1} : b \in TableBounds(t)} \cup {-100000, 100000}

ClassifyInit ==
  /\ arg_table \in ProgramTables \cup SmallTables
  /\ arg_value \in ValuesFor(arg_table)
  /\ ret_color = NoColor

Classify ==
  /\ ret_color = NoColor
  /\ ret_color' = get_color_from_table(arg_value, arg_table)
  /\ UNCHANGED <<arg_value, arg_table>>

(***************************************************************************)
(* Python's list indexing: a negative index counts from the end, an index  *)
(* outside -len..len-1 raises IndexError.                                  *)
(***************************************************************************)
PyIndexOK(list, k) == -Len(list) <= k /\ k < Len(list)

PyIndex(list, k) == IF k >= 0 THEN list[k + 1] ELSE list[Len(list) + k + 1]

(***************************************************************************)
(* The random source.  Its state is the seed it was last given and the     *)
(* number of draws made since; every draw is a function of that state.     *)
(* After random.seed(42) the calls uniform, randint(40, 80), uniform,      *)
(* randint(40, 80), uniform, randint(40, 80) return, in CPython,           *)
(* 0.639.. of the interval, 41, 0.741.. of the interval, 55, 0.223.. of    *)
(* the interval, 46.  Any other draw is a fixed scramble of the state.     *)
(***************************************************************************)
Seed42Results == <<639, 41, 742, 55, 223, 46>>

Scramble(r) == (r.seed * 389 + r.pos * 617 + 71) % 1000

SeedRandomMutant(r, s) == r

\* random.seed(s)
SeedRandom(r, s) == [seed |-> s, pos |-> 0]

Advance(r, n) == [r EXCEPT !.pos = @ + n]

PerMille(r) ==
  IF r.seed = 42 /\ r.pos < Len(Seed42Results) /\ r.pos % 2 = 0
  THEN Seed42Results[r.pos + 1] ELSE Scramble(r)

\* random.uniform(a, b) = a + (b - a) * random()
Uniform(r, a, b) == a + ((b - a) * PerMille(r)) \div 1000

\* random.randint(a, b)
RandInt(r, a, b) ==
  IF r.seed = 42 /\ r.pos < Len(Seed42Results) /\ r.pos % 2 = 1 /\ a = 40 /\ b = 80
  THEN Seed42Results[r.pos + 1] ELSE a + (Scramble(r) % (b - a + 1))

\* random.choice(seq)
Choice(r, seq) == seq[1 + (Scramble(r) % Len(seq))]

\* the states the random source of a freshly started process may be in
EntropyStates == {[seed |-> s, pos |-> 0] : s \in 0..MaxEntropySeed}

(***************************************************************************)
(* Rotation angles.  The frame driver passes 2*pi*i/N; the model holds     *)
(* the pair <<i, N>> (static mode's 0 is <<0, 1>>).  The tables hold       *)
(* int(math.cos(angle) * 80), int(math.sin(angle) * 80) for the lobe       *)
(* angle rotation + j * (2*pi/num_lobes), as                               *)
(* LobeOffsetTable[N][i+1][num_lobes][j+1], and                            *)
(* int(math.cos(rotation + 1.5) * storm_radius * 0.5) with its sine, as    *)
(* HookOffsetTable[N][i+1][k] for the k-th storm radius, each evaluated    *)
(* in double precision as the program evaluates it.                        *)
(***************************************************************************)
LobeOffsetTable ==
  <<
    <<
       <<<<<<80, 0>>>>, <<<<80, 0>>, <<-80, 0>>>>, <<<<80, 0>>, <<-39, 69>>, <<-40, -69>>>>>>
    >>,
    <<
       <<<<<<80, 0>>>>, <<<<80, 0>>, <<-80, 0>>>>, <<<<80, 0>>, <<-39, 69>>, <<-40, -69>>>>>>,
       <<<<<<-80, 0>>>>, <<<<-80, 0>>, <<80, 0>>>>, <<<<-80, 0>>, <<39, -69>>, <<40, 69>>>>>>
    >>,
    <<
       <<<<<<80, 0>>>>, <<<<80, 0>>, <<-80, 0>>>>, <<<<80, 0>>, <<-39, 69>>, <<-40, -69>>>>>>,
       <<<<<<-39, 69>>>>, <<<<-39, 69>>, <<39, -69>>>>, <<<<-39, 69>>, <<-40, -69>>, <<80, 0>>>>>>,
       <<<<<<-40, -69>>>>, <<<<-40, -69>>, <<40, 69>>>>, <<<<-40, -69>>, <<80, 0>>, <<-39, 69>>>>>>
    >>,
    <<
       <<<<<<80, 0>>>>, <<<<80, 0>>, <<-80, 0>>>>, <<<<80, 0>>, <<-39, 69>>, <<-40, -69>>>>>>,
       <<<<<<0, 80>>>>, <<<<0, 80>>, <<0, -80>>>>, <<<<0, 80>>, <<-69, -39>>, <<69, -40>>>>>>,
       <<<<<<-80, 0>>>>, <<<<-80, 0>>, <<80, 0>>>>, <<<<-80, 0>>, <<39, -69>>, <<40, 69>>>>>>,
       <<<<<<0, -80>>>>, <<<<0, -80>>, <<0, 80>>>>, <<<<0, -80>>, <<69, 39>>, <<-69, 39>>>>>>
    >>,
    <<
       <<<<<<80, 0>>>>, <<<<80, 0>>, <<-80, 0>>>>, <<<<80, 0>>, <<-39, 69>>, <<-40, -69>>>>>>,
       <<<<<<24, 76>>>>, <<<<24, 76>>, <<-24, -76>>>>, <<<<24, 76>>, <<-78, -16>>, <<53, -59>>>>>>,
       <<<<<<-64, 47>>>>, <<<<-64, 47>>, <<64, -47>>>>, <<<<-64, 47>>, <<-8, -79>>, <<73, 32>>>>>>,
       <<<<<<-64, -47>>>>, <<<<-64, -47>>, <<64, 47>>>>, <<<<-64, -47>>, <<73, -32>>, <<-8, 79>>>>>>,
       <<<<<<24, -76>>>>, <<<<24, -76>>, <<-24, 76>>>>, <<<<24, -76>>, <<53, 59>>, <<-78, 16>>>>>>
    >>
  >>

HookOffsetTable ==
  <<
    <<
       <<<<5, 74>>, <<7, 99>>, <<10, 149>>>>
    >>,
    <<
       <<<<5, 74>>, <<7, 99>>, <<10, 149>>>>,
       <<<<-5, -74>>, <<-7, -99>>, <<-10, -149>>>>
    >>,
    <<
       <<<<5, 74>>, <<7, 99>>, <<10, 149>>>>,
       <<<<-67, -32>>, <<-89, -43>>, <<-134, -65>>>>,
       <<<<62, -42>>, <<82, -56>>, <<124, -84>>>>
    >>,
    <<
       <<<<5, 74>>, <<7, 99>>, <<10, 149>>>>,
       <<<<-74, 5>>, <<-99, 7>>, <<-149, 10>>>>,
       <<<<-5, -74>>, <<-7, -99>>, <<-10, -149>>>>,
       <<<<74, -5>>, <<99, -7>>, <<149, -10>>>>
    >>,
    <<
       <<<<5, 74>>, <<7, 99>>, <<10, 149>>>>,
       <<<<-69, 28>>, <<-92, 37>>, <<-139, 56>>>>,
       <<<<-48, -57>>, <<-64, -76>>, <<-96, -114>>>>,
       <<<<39, -63>>, <<52, -84>>, <<79, -127>>>>,
       <<<<72, 18>>, <<97, 24>>, <<145, 36>>>>
    >>
  >>

\* the angles the frame driver can pass for a frame count of at most MaxFrames
Rotations == {r \in (0..(MaxFrames - 1)) \X (1..MaxFrames) : r[1] < r[2]}

STORM_RADII == <<150, 200, 300>>

RadiusIndex(R) == CHOOSE k \in 1..Len(STORM_RADII) : STORM_RADII[k] = R

(***************************************************************************)
(* generate_reflectivity_image, lines 98-119: the stage tables, the        *)
(* reseeding and the lobes.  Strengths are in thousandths of a dBZ.        *)
(***************************************************************************)
MaxReflectivity(stage_, intensity_) ==
  (PyIndex(<<35, 55, 75>>, stage_ - 1) * 1000 * intensity_) \div 99

Lobe(r, rotation, num_lobes, max_reflectivity, k) ==
  LET off == LobeOffsetTable[rotation[2]][rotation[1] + 1][num_lobes][k + 1]
  IN  << CENTER_X + off[1], CENTER_Y + off[2],
         Uniform(Advance(r, 2 * k), max_reflectivity \div 2, max_reflectivity),
         RandInt(Advance(r, 2 * k + 1), 40, 80) >>

HookLobe(rotation, storm_radius, max_reflectivity) ==
  LET off == HookOffsetTable[rotation[2]][rotation[1] + 1][RadiusIndex(storm_radius)]
  IN  << CENTER_X + off[1], CENTER_Y + off[2],
         (max_reflectivity * 8) \div 10, storm_radius \div 2 >>

PlaceLobes(r, stage_, intensity_, rotation) ==
  LET max_reflectivity == MaxReflectivity(stage_, intensity_)
      storm_radius == PyIndex(STORM_RADII, stage_ - 1)
      num_lobes == PyIndex(<<1, 2, 3>>, stage_ - 1)
      seeded == SeedRandom(r, 42)
  IN  [ rng |-> Advance(seeded, 2 * num_lobes),
        storm_radius |-> storm_radius,
        lobe_centers |-> [k \in 1..num_lobes |->
                            Lobe(seeded, rotation, num_lobes, max_reflectivity, k - 1)],
        hook_lobe |-> HookLobe(rotation, storm_radius, max_reflectivity) ]

\* ---- the lobe placement called MaxCalls times with the same arguments, the
\* ---- random source disturbed in between
None == "None"

IntensitySamples == {1, 99}

LobeArgs == (1..3) \X IntensitySamples \X Rotations

\* the states other draws and reseedings may leave the random source in
DisturbedStates == EntropyStates \cup {Advance(r, 1) : r \in EntropyStates}

LobeInit ==
  /\ rng \in EntropyStates
  /\ lobe_args \in LobeArgs
  /\ lobe_calls = 0 /\ rng_before = rng
  /\ lobe_result = <<>> /\ prev_result = <<>>

CallPlaceLobes ==
  /\ lobe_calls < MaxCalls
  /\ LET res == PlaceLobes(rng, lobe_args[1], lobe_args[2], lobe_args[3])
     IN  /\ lobe_result' = <<res.lobe_centers, res.hook_lobe>>
         /\ rng' = res.rng
  /\ prev_result' = lobe_result
  /\ rng_before' = rng
  /\ lobe_calls' = lobe_calls + 1
  /\ UNCHANGED lobe_args

\* whatever else draws from the random source, or reseeds it, between two calls
DisturbRandom ==
  /\ lobe_calls > 0
  /\ rng' \in DisturbedStates
  /\ UNCHANGED lobeVars

(***************************************************************************)
(* The field generators, lines 94-272.  A call is followed at one pixel    *)
(* of the canvas, the probe: the pixel loop is run in row-major order from *)
(* one pixel that writes the probe to the next, the pixels in between      *)
(* leaving the probe as it is.  The analytic field value of a pixel        *)
(* (radial falloff, lobes, hook, noise) is not computed: the value before  *)
(* clamping is any of a few values in and outside the product's range.     *)
(***************************************************************************)
Transparent == <<0, 0, 0, 0>>

ColorTable(p) ==
  CASE p = "VELOCITY" -> VELOCITY_COLORS
    [] p = "ZDR" -> ZDR_COLORS
    [] p = "CC" -> CC_COLORS
    [] p = "SW" -> SW_COLORS
    [] OTHER -> REFLECTIVITY_COLORS

\* val = max(lo, min(hi, val)), in tenths
ClampRange(p) ==
  CASE p = "VELOCITY" -> <<-1200, 1200>>
    [] p = "ZDR" -> <<-20, 20>>
    [] p = "CC" -> <<0, 10>>
    [] p = "SW" -> <<0, 50>>
    [] OTHER -> <<0, 800>>

Clamp(p, v) == Max(ClampRange(p)[1], Min(ClampRange(p)[2], v))

\* values before clamping, in tenths
RawFieldValues(p) ==
  CASE p = "VELOCITY" -> {-1500, -400, 0, 1300}
    [] p = "ZDR" -> {-25, -5, 4, 20}
    [] p = "CC" -> {-1, 6, 9, 11}
    [] p = "SW" -> {-3, 10, 49, 55}
    [] OTHER -> {-40, 50, 430, 950}

\* val at the time of a tail write, in whole dBZ
PartialValues == {0, 40, 130}

OpaquePixelMutant(color) == Append(color, 180)

\* color + (255,)
OpaquePixel(color) == Append(color, 255)

\* (tail_val, tail_val, 0, 180) with tail_val = int(min(255, existing[0] + val * 2))
TailPixel(existing, partial) ==
  LET tail_val == Min(255, existing[1] + partial * 2)
  IN  <<tail_val, tail_val, 0, 180>>

OutsideRadiusMutant(dx, dy, radius) == dx * dx > radius * radius \/ dy * dy > radius * radius

\* dist = math.sqrt(dx * dx + dy * dy); dist > radius
OutsideRadius(dx, dy, radius) == dx * dx + dy * dy > radius * radius

Visited(q, radius) == ~OutsideRadius(q[1] - CENTER_X, q[2] - CENTER_Y, radius)

\* d = math.sqrt((x - cx) ** 2 + (y - cy) ** 2); d < radius
InLobe(q, lobe) ==
  (q[1] - lobe[1]) * (q[1] - lobe[1]) + (q[2] - lobe[2]) * (q[2] - lobe[2]) < lobe[4] * lobe[4]

tail_length == 15

\* (tail_end_x, tail_end_y)
TailEnd(q, lobe) ==
  << q[1] + TruncDiv((q[1] - lobe[1]) * tail_length, Max(lobe[4], 1)),
     q[2] + TruncDiv((q[2] - lobe[2]) * tail_length, Max(lobe[4], 1)) >>

OnCanvas(q) == 0 <= q[1] /\ q[1] < WIDTH /\ 0 <= q[2] /\ q[2] < HEIGHT

\* position of a pixel in the pass: for y in range(HEIGHT): for x in range(WIDTH)
PassIndex(q) == q[2] * WIDTH + q[1]

\* the lobes whose tail, drawn from pixel q, ends on pixel p
TailLobes(q, p, lobes) ==
  {k \in 1..Len(lobes) : InLobe(q, lobes[k]) /\ OnCanvas(TailEnd(q, lobes[k]))
                           /\ TailEnd(q, lobes[k]) = p}

\* a tail is shorter than tail_length along each axis, and its two coordinates
\* are computed apart: the coordinates t near e whose tail, from centre c, ends at e
AxisSources(e, c, radius) ==
  {t \in (e - tail_length)..(e + tail_length) :
     t + TruncDiv((t - c) * tail_length, Max(radius, 1)) = e}

\* the pixels whose tail write can land on p
TailSources(p, lobes) ==
  UNION { AxisSources(p[1], lobes[k][1], lobes[k][4]) \X
          AxisSources(p[2], lobes[k][2], lobes[k][4]) : k \in 1..Len(lobes) }

\* the pixels whose visit writes pixel p
Writers(p, radius, lobes) ==
  {q \in {p} \cup TailSources(p, lobes) :
     OnCanvas(q) /\ Visited(q, radius) /\ (q = p \/ TailLobes(q, p, lobes) # {})}

\* the lobe loop of one visit, as far as it writes p: lobes in list order
RECURSIVE TailWrites(_, _, _, _, _, _)
TailWrites(pix, q, p, lobes, partials, k) ==
  IF k > Len(lobes) THEN pix
  ELSE IF k \in TailLobes(q, p, lobes)
       THEN TailWrites(TailPixel(pix, partials[k]), q, p, lobes, partials, k + 1)
       ELSE TailWrites(pix, q, p, lobes, partials, k + 1)

\* the draws of one pixel loop: one uniform for every pixel visited
DiscPixels(radius) == <<70681, 125629, 282697>>[RadiusIndex(radius)]

\* add_speckle_noise: one random() for every pixel and one randint for every hit
SpeckleDraws(r) == WIDTH * HEIGHT + Scramble(r)

Cross(a) ==
  {q \in {<<a[1] + k, a[2]>> : k \in (-ProbeSpan)..ProbeSpan} \cup
         {<<a[1], a[2] + k>> : k \in (-ProbeSpan)..ProbeSpan} : OnCanvas(q)}

\* the pixels a call is followed at: around the canvas centre, the rim of the
\* active disc, the corner of its bounding box, the canvas corners and, for
\* reflectivity, the lobe centres
Anchors(p, stage_, rotation) ==
  LET radius == PyIndex(STORM_RADII, stage_ - 1)
      num_lobes == PyIndex(<<1, 2, 3>>, stage_ - 1)
      offs == LobeOffsetTable[rotation[2]][rotation[1] + 1][num_lobes]
  IN  { <<CENTER_X, CENTER_Y>>, <<CENTER_X + radius, CENTER_Y>>,
        <<CENTER_X, CENTER_Y - radius>>, <<CENTER_X + radius, CENTER_Y + radius>>,
        <<0, 0>>, <<WIDTH - 1, HEIGHT - 1>> }
      \cup (IF p = "REFLECTIVITY"
            THEN {<<CENTER_X + offs[k][1], CENTER_Y + offs[k][2]>> : k \in 1..num_lobes}
            ELSE {})

Probes(p, stage_, rotation) == UNION {Cross(a) : a \in Anchors(p, stage_, rotation)}

FieldInit ==
  /\ gen_pc = "entry"
  /\ gen_product \in Products
  /\ gen_stage \in 1..3
  /\ gen_intensity \in IntensitySamples
  /\ gen_rotation \in Rotations
  /\ probe \in Probes(gen_product, gen_stage, gen_rotation)
  /\ active_radius = 0 /\ lobe_centers = <<>> /\ hook_lobe = <<>>
  /\ cursor = 0 /\ pixel = Transparent /\ val = <<>>

\* Image.new, the stage tables and, for reflectivity, the seeding and the lobes
GenSetup ==
  /\ gen_pc = "entry"
  /\ gen_pc' = "loop"
  /\ IF gen_product = "REFLECTIVITY"
     THEN LET res == PlaceLobes(rng, gen_stage, gen_intensity, gen_rotation)
          IN  /\ active_radius' = res.storm_radius
              /\ lobe_centers' = res.lobe_centers
              /\ hook_lobe' = res.hook_lobe
              /\ rng' = res.rng
     ELSE /\ active_radius' = PyIndex(STORM_RADII, gen_stage - 1)
          /\ UNCHANGED <<lobe_centers, hook_lobe, rng>>
  /\ UNCHANGED <<gen_product, gen_stage, gen_intensity, gen_rotation, probe,
                 cursor, pixel, val>>

PendingWriters ==
  {q \in Writers(probe, active_radius, lobe_centers) : PassIndex(q) >= cursor}

\* the pass runs up to and through the next pixel that writes the probe
PixelLoopStep ==
  /\ gen_pc = "loop"
  /\ PendingWriters # {}
  /\ LET q == CHOOSE w \in PendingWriters :
                \A o \in PendingWriters : PassIndex(w) <= PassIndex(o)
     IN  /\ cursor' = PassIndex(q) + 1
         /\ \E partials \in [1..Len(lobe_centers) -> PartialValues] :
              LET tailed == TailWrites(pixel, q, probe, lobe_centers, partials, 1)
              IN  IF q = probe
                  THEN \E raw \in RawFieldValues(gen_product) :
                         /\ val' = <<Clamp(gen_product, raw)>>
                         /\ pixel' = OpaquePixel(
                                get_color_from_table(val'[1], ColorTable(gen_product)))
                  ELSE /\ pixel' = tailed
                       /\ UNCHANGED val
  /\ UNCHANGED <<gen_pc, gen_product, gen_stage, gen_intensity, gen_rotation,
                 active_radius, lobe_centers, hook_lobe, probe, rng>>

\* the pass ends
PixelLoopExit ==
  /\ gen_pc = "loop"
  /\ PendingWriters = {}
  /\ gen_pc' = "loop_done"
  /\ cursor' = WIDTH * HEIGHT
  /\ rng' = Advance(rng, DiscPixels(active_radius))
  /\ UNCHANGED <<gen_product, gen_stage, gen_intensity, gen_rotation,
                 active_radius, lobe_centers, hook_lobe, probe, pixel, val>>

\* add_speckle_noise: pixels[x, y] = (noise, noise, noise), alpha 255
Speckle ==
  /\ gen_pc = "loop_done"
  /\ gen_pc' = "speckled"
  /\ pixel' \in {pixel} \cup {<<n, n, n, 255>> : n \in {150, 255}}
  /\ rng' = Advance(rng, SpeckleDraws(rng))
  /\ UNCHANGED <<gen_product, gen_stage, gen_intensity, gen_rotation,
                 active_radius, lobe_centers, hook_lobe, probe, cursor, val>>

\* img.filter(ImageFilter.GaussianBlur(...)): the probe is mixed with its
\* neighbourhood, which the model does not hold
BlurResults(pix) == {pix, Transparent, <<40, 40, 40, 128>>}

Blur ==
  /\ gen_pc = "speckled"
  /\ gen_pc' = "returned"
  /\ pixel' \in BlurResults(pixel)
  /\ UNCHANGED <<gen_product, gen_stage, gen_intensity, gen_rotation,
                 active_radius, lobe_centers, hook_lobe, probe, cursor, val, rng>>

\* the random source after the pixel loop, and after add_speckle_noise
RngAfterLoop(r, radius) == Advance(r, DiscPixels(radius))
RngAfterSpeckle(r) == Advance(r, SpeckleDraws(r))

(***************************************************************************)
(* add_gtg_shear_overlay, lines 275-296.  A raster is a function from      *)
(* <<x, y>>, x in 0..width-1, y in 0..height-1, to an RGBA pixel.          *)
(***************************************************************************)
ImgWidth(img) == 1 + CHOOSE x \in 0..MaxImgWidth + 1 :
                       <<x, 0>> \in DOMAIN img /\ <<x + 1, 0>> \notin DOMAIN img
ImgHeight(img) == 1 + CHOOSE y \in 0..MaxImgWidth + 1 :
                        <<0, y>> \in DOMAIN img /\ <<0, y + 1>> \notin DOMAIN img

Magenta == <<255, 0, 255, 180>>

RedDiffMutant(r1, r2) == r1 - r2

\* diff = abs(r1 - r2)
RedDiff(r1, r2) == Abs(r1 - r2)

\* the two loops, pair by pair in row-major order, from pair number k on
RECURSIVE MarkPairs(_, _, _, _)
MarkPairs(img, threshold, ov, k) ==
  LET width == ImgWidth(img)
      height == ImgHeight(img)
      x == k % (width - 1)
      y == k \div (width - 1)
  IN  IF width < 2 \/ y >= height THEN ov
      ELSE IF RedDiff(img[<<x, y>>][1], img[<<x + 1, y>>][1]) > threshold
           THEN MarkPairs(img, threshold,
                          [ov EXCEPT ![<<x, y>>] = Magenta, ![<<x + 1, y>>] = Magenta],
                          k + 1)
           ELSE MarkPairs(img, threshold, ov, k + 1)

ShearOverlay(img, threshold) ==
  MarkPairs(img, threshold, [q \in DOMAIN img |-> Transparent], 0)

\* Pillow's Image.alpha_composite on one pixel (8-bit channels, 7 bits of
\* extra precision, division by 255 done by shifts)
ShiftForDiv255(a) == ((a \div 256) + a) \div 256

CompositePixel(dst, src) ==
  IF src[4] = 0 THEN dst
  ELSE LET blend == dst[4] * (255 - src[4])
           outa255 == src[4] * 255 + blend
           coef1 == (src[4] * 255 * 255 * 128) \div outa255
           coef2 == 255 * 128 - coef1
           ch(c) == ShiftForDiv255(src[c] * coef1 + dst[c] * coef2 + 128 * 128) \div 128
       IN  <<ch(1), ch(2), ch(3), ShiftForDiv255(outa255 + 128)>>

AlphaComposite(dst, src) == [q \in DOMAIN dst |-> CompositePixel(dst[q], src[q])]

add_gtg_shear_overlay(img, threshold) ==
  AlphaComposite(img, ShearOverlay(img, threshold))

\* the rasters a generator is taken to return: one row of MaxImgWidth pixels,
\* red channels on both sides of the frame's shear threshold of 40
RedSamples == {0, 40, 81}

NoRaster == [q \in {} |-> Transparent]

Thumbnails ==
  {[q \in (0..(MaxImgWidth - 1)) \X {0} |-> <<f[q[1]], 0, 0, 255>>] :
     f \in [0..(MaxImgWidth - 1) -> RedSamples]}

(***************************************************************************)
(* main(), lines 350-504.                                                  *)
(***************************************************************************)
\* the command line: for each option <<>> when it is absent, <<v>> when it is
\* given with v; the two flags are given or not
Opt(S) == {<<>>} \cup {<<v>> : v \in S}
StageArgs == Opt((-3)..4)
IntensityArgs == Opt({0, 57, 150})
ProductArgs == Opt({"velocity", "zdr", "cc", "sw", "hail"})
FrameArgs == Opt((-1)..MaxFrames)

\* str.upper() on the product names tried
Upper(s) ==
  CASE s = "velocity" -> "VELOCITY"
    [] s = "zdr" -> "ZDR"
    [] s = "cc" -> "CC"
    [] s = "sw" -> "SW"
    [] s = "hail" -> "HAIL"
    [] OTHER -> s

ClampIntensityMutant(n) == n

\* max(1, min(99, int(...)))
ClampIntensity(n) == Max(1, Min(99, n))

MainInit ==
  /\ pc = "start"
  /\ argv \in [stage : StageArgs, intensity : IntensityArgs, product : ProductArgs,
               polygon : BOOLEAN, gif : BOOLEAN, frames : FrameArgs]
  \* the default of 20 frames is used by no run the model follows
  /\ argv.gif <=> argv.frames # <<>>
  /\ rng \in EntropyStates
  \* lines 352-357
  /\ stage = 1 /\ intensity = 50 /\ product = "REFLECTIVITY"
  /\ polygon_enabled = FALSE /\ gif_mode = FALSE /\ frames_count = 20
  /\ attrs = <<>> /\ i = 0 /\ rotation_angle = <<>>
  /\ gen_log = <<>> /\ radar_in = NoRaster /\ overlay = NoRaster /\ radar_img = NoRaster
  /\ images = <<>> /\ combined = 0 /\ draw = 0
  /\ panel_log = <<>> /\ poly_log = <<>> /\ frames = <<>> /\ saved = <<>> /\ error = None

\* lines 351-374: the defaults and the argument loop
ParseArgs ==
  /\ pc = "start"
  /\ pc' = "parsed"
  /\ stage' = IF argv.stage = <<>> THEN stage ELSE argv.stage[1]
  /\ intensity' = IF argv.intensity = <<>> THEN intensity
                  ELSE ClampIntensity(argv.intensity[1])
  /\ product' = IF argv.product = <<>> THEN product ELSE Upper(argv.product[1])
  /\ polygon_enabled' = (polygon_enabled \/ argv.polygon)
  /\ gif_mode' = (gif_mode \/ argv.gif)
  /\ frames_count' = IF argv.frames = <<>> THEN frames_count ELSE argv.frames[1]
  /\ UNCHANGED <<argv, rng, attrs, i, rotation_angle, gen_log, radar_in, overlay,
                 radar_img, images, combined, draw, panel_log, poly_log, frames, saved, error>>

\* lines 377-380, in thousandths where the value is a float
DrawAttributes(r) ==
  [ max_reflectivity |-> Uniform(r, 40000, 78000),
    hail_size |-> Uniform(Advance(r, 1), 500, 3500),
    rotation_strength |-> Choice(Advance(r, 2), <<"Weak", "Moderate", "Strong">>),
    tvs_prob |-> RandInt(Advance(r, 3), 30, 99) ]

\* lines 376-393: the storm attributes, the base image, the fonts
Prepare ==
  /\ pc = "parsed"
  /\ attrs' = <<DrawAttributes(rng)>>
  /\ rng' = Advance(rng, 4)
  /\ images' = << {"base"} >>
  /\ IF gif_mode
     THEN pc' = "loop" /\ i' = 0
     ELSE pc' = "static" /\ UNCHANGED i
  /\ UNCHANGED <<argv, stage, intensity, product, polygon_enabled, gif_mode,
                 frames_count, rotation_angle, gen_log, radar_in, overlay, radar_img,
                 combined, draw, panel_log, poly_log, frames, saved, error>>

\* for i in range(frames_count)
LoopContinues(k, n) == k < n

\* lines 493-495: rotation_angle = 2 * math.pi * i / frames_count
NextFrame ==
  /\ pc = "loop"
  /\ LoopContinues(i, frames_count)
  /\ rotation_angle' = <<i, frames_count>>
  /\ pc' = "frame"
  /\ UNCHANGED <<argv, rng, stage, intensity, product, polygon_enabled, gif_mode,
                 frames_count, attrs, i, gen_log, radar_in, overlay, radar_img,
                 images, combined, draw, panel_log, poly_log, frames, saved, error>>

\* line 501: generate_frame(0)
StaticFrame ==
  /\ pc = "static"
  /\ rotation_angle' = <<0, 1>>
  /\ pc' = "frame"
  /\ UNCHANGED <<argv, rng, stage, intensity, product, polygon_enabled, gif_mode,
                 frames_count, attrs, i, gen_log, radar_in, overlay, radar_img,
                 images, combined, draw, panel_log, poly_log, frames, saved, error>>

\* the generator generate_frame picks for a product string
GeneratorOf(p) == IF p \in {"VELOCITY", "ZDR", "CC", "SW"} THEN p ELSE "REFLECTIVITY"

\* line 397: only the velocity branch calls add_gtg_shear_overlay
UsesShear(p) == p = "VELOCITY"

RngAfterGeneratorMutant(r, g, stage_, intensity_, rotation) ==
  RngAfterSpeckle(RngAfterLoop(r, PyIndex(STORM_RADII, stage_ - 1)))

\* the random source when a generator returns
RngAfterGenerator(r, g, stage_, intensity_, rotation) ==
  LET radius == PyIndex(STORM_RADII, stage_ - 1)
      entered == IF g = "REFLECTIVITY"
                 THEN PlaceLobes(r, stage_, intensity_, rotation).rng ELSE r
  IN  RngAfterSpeckle(RngAfterLoop(entered, radius))

\* lines 397-407: the generator and, for velocity, the shear overlay.  Every
\* generator indexes its stage tables with stage - 1 before anything else.
RadarLayer ==
  /\ pc = "frame"
  /\ gen_log' = Append(gen_log, [generator |-> GeneratorOf(product), stage |-> stage,
                                 intensity |-> intensity, rotation |-> rotation_angle])
  /\ IF ~PyIndexOK(STORM_RADII, stage - 1)
     THEN /\ pc' = "crashed"
          /\ error' = "IndexError in generator"
          /\ UNCHANGED <<rng, radar_in, overlay, radar_img>>
     ELSE /\ pc' = "layered"
          /\ rng' = RngAfterGenerator(rng, GeneratorOf(product), stage, intensity,
                                      rotation_angle)
          /\ radar_in' \in Thumbnails
          /\ IF UsesShear(product)
             THEN /\ overlay' = ShearOverlay(radar_in', 40)
                  /\ radar_img' = add_gtg_shear_overlay(radar_in', 40)
             ELSE /\ overlay' = NoRaster
                  /\ radar_img' = radar_in'
          /\ UNCHANGED error
  /\ UNCHANGED <<argv, stage, intensity, product, polygon_enabled, gif_mode,
                 frames_count, attrs, i, rotation_angle, images, combined, draw,
                 panel_log, poly_log, frames, saved>>

\* what draw_grid, the blind-spot ellipse, the label and title texts and
\* draw_colorbar put on the image the Draw object was made for
DrawnLayers == {"grid", "blind_spot", "labels", "colorbar"}

\* lines 409-470: combined = alpha_composite(base_img, radar_img), a new image;
\* draw = ImageDraw.Draw(combined); the drawing calls.  The raster of the radar
\* layer is not used after line 409.
Compose ==
  /\ pc = "layered"
  /\ pc' = "composed"
  /\ images' = Append(images, images[1] \cup {"product"} \cup DrawnLayers)
  /\ combined' = Len(images) + 1
  /\ draw' = Len(images) + 1
  /\ radar_in' = NoRaster /\ overlay' = NoRaster /\ radar_img' = NoRaster
  /\ UNCHANGED <<argv, rng, stage, intensity, product, polygon_enabled, gif_mode,
                 frames_count, attrs, i, rotation_angle, gen_log, panel_log, poly_log, frames,
                 saved, error>>

\* generate_severe_polygon, lines 330-340: the vertices in polar form
\* (thousandths of a radian, pixels)
generate_severe_polygon(r) ==
  LET radius == RandInt(r, 120, 200)
      center_angle == Uniform(Advance(r, 1), 0, 6283)
      n == RandInt(Advance(r, 2), 5, 7)
  IN  [ rng |-> Advance(r, 3 + 2 * n),
        points |-> [k \in 1..n |->
           << center_angle + (k - 1) * 1047 + Uniform(Advance(r, 1 + 2 * k), -200, 200),
              radius + RandInt(Advance(r, 2 + 2 * k), -30, 30) >>] ]

\* lines 473-484: each alpha_composite returns a new image and combined is
\* rebound to it; draw keeps the image it was made for
Polygon ==
  /\ pc = "composed"
  /\ polygon_enabled
  /\ pc' = "polygon_drawn"
  /\ rng' = generate_severe_polygon(rng).rng
  /\ poly_log' = Append(poly_log, [generator |-> GeneratorOf(product), stage |-> stage,
                                   stream |-> rng,
                                   points |-> generate_severe_polygon(rng).points])
  /\ LET first == images[combined] \cup {"polygon"}
         second == first \cup {"polygon", "polygon_label"}
     IN  /\ images' = images \o <<first, second>>
         /\ combined' = Len(images) + 2
  /\ UNCHANGED <<argv, stage, intensity, product, polygon_enabled, gif_mode,
                 frames_count, attrs, i, rotation_angle, gen_log, radar_in, overlay,
                 radar_img, draw, panel_log, frames, saved, error>>

PanelValuesMutant(a, r) == DrawAttributes(r)

\* the four values draw_storm_attributes is called with: the closure's
PanelValues(a, r) == a

\* lines 486-487: draw_storm_attributes(draw, ...)
Panel ==
  /\ \/ pc = "composed" /\ ~polygon_enabled
     \/ pc = "polygon_drawn"
  /\ pc' = "panel_drawn"
  /\ images' = [images EXCEPT ![draw] = @ \cup {"attributes"}]
  /\ panel_log' = Append(panel_log, PanelValues(attrs[1], rng))
  /\ UNCHANGED <<argv, rng, poly_log, stage, intensity, product, polygon_enabled, gif_mode,
                 frames_count, attrs, i, rotation_angle, gen_log, radar_in, overlay,
                 radar_img, combined, draw, frames, saved, error>>

\* line 489, and line 496 or 501: the frame is returned and kept; the other
\* images of the call are dropped
ReturnFrame ==
  /\ pc = "panel_drawn"
  /\ frames' = Append(frames, [rotation |-> rotation_angle, layers |-> images[combined]])
  /\ images' = << images[1] >>
  /\ combined' = 0 /\ draw' = 0
  /\ IF gif_mode
     THEN pc' = "loop" /\ i' = i + 1
     ELSE pc' = "static_save" /\ UNCHANGED i
  /\ UNCHANGED <<argv, rng, stage, intensity, product, polygon_enabled, gif_mode,
                 frames_count, attrs, rotation_angle, gen_log, radar_in, overlay,
                 radar_img, panel_log, poly_log, saved, error>>

SavedFramesMutant(fs) == Tail(fs)

\* frames[0].save(..., save_all=True, append_images=frames[1:], ...)
SavedFrames(fs) == <<Head(fs)>> \o Tail(fs)

\* lines 497-499: frames[0] of an empty list raises IndexError
SaveAnimation ==
  /\ pc = "loop"
  /\ ~LoopContinues(i, frames_count)
  /\ IF frames = <<>>
     THEN /\ pc' = "crashed"
          /\ error' = "IndexError in save"
          /\ UNCHANGED saved
     ELSE /\ pc' = "done"
          /\ saved' = Append(saved, [format |-> "GIF", frames |-> SavedFrames(frames),
                                     duration |-> 100, loop |-> 0])
          /\ UNCHANGED error
  /\ UNCHANGED <<argv, rng, stage, intensity, product, polygon_enabled, gif_mode,
                 frames_count, attrs, i, rotation_angle, gen_log, radar_in, overlay,
                 radar_img, images, combined, draw, panel_log, poly_log, frames>>

\* lines 502-504: frame.convert("RGB").save(output_filename)
SaveImage ==
  /\ pc = "static_save"
  /\ pc' = "done"
  /\ saved' = Append(saved, [format |-> "PNG", frames |-> <<frames[Len(frames)]>>,
                             duration |-> 0, loop |-> 0])
  /\ UNCHANGED <<argv, rng, stage, intensity, product, polygon_enabled, gif_mode,
                 frames_count, attrs, i, rotation_angle, gen_log, radar_in, overlay,
                 radar_img, images, combined, draw, panel_log, poly_log, frames, error>>

(***************************************************************************)
(* The specifications.  Each leaves the variables of the other parts at    *)
(* rest.                                                                   *)
(***************************************************************************)
ClassIdle == arg_value = None /\ arg_table = None /\ ret_color = None

LobeIdle ==
  /\ lobe_args = None /\ lobe_calls = None /\ rng_before = None
  /\ lobe_result = None /\ prev_result = None

FieldIdle ==
  /\ gen_pc = None /\ gen_product = None /\ gen_stage = None /\ gen_intensity = None
  /\ gen_rotation = None /\ active_radius = None /\ lobe_centers = None
  /\ hook_lobe = None /\ probe = None /\ cursor = None /\ pixel = None /\ val = None

MainIdle ==
  /\ pc = None /\ argv = None /\ stage = None /\ intensity = None /\ product = None
  /\ polygon_enabled = None /\ gif_mode = None /\ frames_count = None
  /\ attrs = None /\ i = None /\ rotation_angle = None /\ gen_log = None
  /\ radar_in = None /\ overlay = None /\ radar_img = None /\ images = None
  /\ combined = None /\ draw = None /\ panel_log = None /\ poly_log = None /\ frames = None
  /\ saved = None /\ error = None

\* ---- main()
Init == MainInit /\ ClassIdle /\ LobeIdle /\ FieldIdle

Next ==
  \/ (ParseArgs \/ Prepare \/ NextFrame \/ StaticFrame \/ RadarLayer \/ Compose
        \/ Polygon \/ Panel \/ ReturnFrame \/ SaveAnimation \/ SaveImage)
     /\ UNCHANGED <<classVars, lobeVars, fieldVars>>

Spec == Init /\ [][Next]_vars

\* ---- get_color_from_table on its own
InitClassify ==
  ClassifyInit /\ rng = None /\ LobeIdle /\ FieldIdle /\ MainIdle

NextClassify == Classify /\ UNCHANGED <<rng, lobeVars, fieldVars, mainVars>>

SpecClassify == InitClassify /\ [][NextClassify]_vars

\* ---- the lobe placement on its own
InitLobes == LobeInit /\ ClassIdle /\ FieldIdle /\ MainIdle

NextLobes ==
  (CallPlaceLobes \/ DisturbRandom) /\ UNCHANGED <<classVars, fieldVars, mainVars>>

SpecLobes == InitLobes /\ [][NextLobes]_vars

\* ---- one call of a field generator
InitField ==
  FieldInit /\ rng = [seed |-> 0, pos |-> 0] /\ ClassIdle /\ LobeIdle /\ MainIdle

NextField ==
  (GenSetup \/ PixelLoopStep \/ PixelLoopExit \/ Speckle \/ Blur)
  /\ UNCHANGED <<classVars, lobeVars, mainVars>>

SpecField == InitField /\ [][NextField]_vars

(***************************************************************************)
(* The claims.                                                             *)
(***************************************************************************)
\* C1: get_color_from_table returns the colour of the first bin in table
\* order with low <= value < high, and the colour of the last entry of the
\* table when no bin holds the value.
C1_FirstBinOrLastEntry ==
  ret_color # NoColor =>
    LET hits == {k \in 1..Len(arg_table) :
                   arg_table[k][1] <= arg_value /\ arg_value < arg_table[k][2]}
    IN  IF hits = {}
        THEN ret_color = arg_table[Len(arg_table)][3]
        ELSE \E k \in hits : (\A j \in hits : k <= j) /\ ret_color = arg_table[k][3]

\* a value equal to the low bound of one bin and the high bound of the bin
\* before it has been given the colour of the former
C1_Witness ==
  /\ ret_color # NoColor
  /\ \E k \in 2..Len(arg_table) :
       /\ arg_table[k][1] = arg_value /\ arg_table[k - 1][2] = arg_value
       /\ arg_value < arg_table[k][2]
       /\ ret_color = arg_table[k][3]
       /\ ret_color # arg_table[k - 1][3]

StageRadius(s) == CASE s = 1 -> 150 [] s = 2 -> 200 [] s = 3 -> 300

ProbeDistSq == (probe[1] - CENTER_X) * (probe[1] - CENTER_X)
               + (probe[2] - CENTER_Y) * (probe[2] - CENTER_Y)

\* C2: when the pixel loop of a generator has finished, every pixel further
\* from the canvas centre than the stage's active radius has alpha 0.
C2_TransparentOutsideRadius ==
  (gen_pc = "loop_done" /\ ProbeDistSq > StageRadius(gen_stage) * StageRadius(gen_stage))
    => pixel[4] = 0

\* the reflectivity loop has finished and a pixel just outside the rim, on
\* the side of a lobe, is transparent
C2_Witness ==
  /\ gen_pc = "loop_done" /\ gen_product = "REFLECTIVITY" /\ gen_stage = 1
  /\ probe = <<CENTER_X + 151, CENTER_Y>>
  /\ lobe_centers[1][1] = CENTER_X + 80
  /\ pixel[4] = 0

\* C5: two calls of the lobe placement with the same stage, intensity and
\* rotation give the same lobes and the same hook lobe, whatever state the
\* random source was in before each.
C5_SameLobes == lobe_calls >= 2 => lobe_result = prev_result

\* a second call, made with the random source in a state other than the one
\* the first call left, has returned the lobes of the first
C5_Witness ==
  /\ lobe_calls >= 2 /\ rng_before.seed # 42
  /\ Len(lobe_result[1]) = 3
  /\ lobe_result = prev_result

\* the pixels visited after the probe whose tail ends on the probe
LaterTailSources ==
  {q \in TailSources(probe, lobe_centers) :
     /\ OnCanvas(q) /\ Visited(q, active_radius)
     /\ TailLobes(q, probe, lobe_centers) # {}
     /\ PassIndex(q) > PassIndex(probe)}

EarlierTailSources ==
  {q \in TailSources(probe, lobe_centers) :
     /\ OnCanvas(q) /\ Visited(q, active_radius)
     /\ TailLobes(q, probe, lobe_centers) # {}
     /\ PassIndex(q) < PassIndex(probe)}

OwnColour ==
  /\ val # <<>>
  /\ pixel = Append(get_color_from_table(val[1], ColorTable(gen_product)), 255)

\* C8 as stated: when the pixel loop has finished, every pixel within the
\* active radius holds the classifier's colour for its own clamped field
\* value, with alpha 255, in the reflectivity generator too.
C8_Original ==
  (gen_pc = "loop_done" /\ ProbeDistSq <= StageRadius(gen_stage) * StageRadius(gen_stage))
    => OwnColour

\* C8 amended: the same, except that in the reflectivity generator a pixel
\* on which the tail of a later-visited pixel ends holds that tail pixel,
\* (t, t, 0) with alpha 180.
C8_OwnColourUnlessLaterTail ==
  (gen_pc = "loop_done" /\ ProbeDistSq <= StageRadius(gen_stage) * StageRadius(gen_stage))
    => IF gen_product = "REFLECTIVITY" /\ LaterTailSources # {}
       THEN pixel[4] = 180 /\ pixel[1] = pixel[2] /\ pixel[3] = 0
       ELSE OwnColour

\* a pixel of the reflectivity layer that a tail was written on before its
\* own visit holds its own colour when the loop has finished
C8_Witness ==
  /\ gen_pc = "loop_done" /\ gen_product = "REFLECTIVITY"
  /\ ProbeDistSq <= StageRadius(gen_stage) * StageRadius(gen_stage)
  /\ EarlierTailSources # {} /\ LaterTailSources = {}
  /\ OwnColour

StageLookupFailed == error = "IndexError in generator"

CallsInOrder ==
  /\ \A k \in 1..Len(gen_log) :
       gen_log[k].rotation = IF gif_mode THEN <<k - 1, frames_count>> ELSE <<0, 1>>
  /\ \A k \in 1..Len(frames) : frames[k].rotation = gen_log[k].rotation
  /\ Len(frames) <= Len(gen_log) /\ Len(gen_log) <= Len(frames) + 1
  /\ (pc = "loop" \/ pc = "done") => Len(frames) = Len(gen_log)

StaticRunEnds ==
  (pc \in {"done", "crashed"} /\ ~gif_mode /\ ~StageLookupFailed)
    => /\ pc = "done" /\ Len(gen_log) = 1 /\ gen_log[1].rotation = <<0, 1>>
       /\ Len(saved) = 1 /\ saved[1].frames = frames

AnimationSaved ==
  /\ pc = "done" /\ Len(gen_log) = frames_count /\ Len(frames) = frames_count
  /\ Len(saved) = 1 /\ saved[1].format = "GIF" /\ saved[1].frames = frames

\* C3 as stated: in animated mode, for any frame count N (0 or more),
\* generate_frame is called N times, for i = 0..N-1 in order with rotation
\* 2*pi*i/N, one call ending before the next begins, and the run ends by saving
\* one animation of those N frames; in static mode it is called once, with
\* rotation 0.  (A run whose stage lookup fails is left aside.)
C3_Original ==
  /\ CallsInOrder
  /\ StaticRunEnds
  /\ (pc \in {"done", "crashed"} /\ gif_mode /\ ~StageLookupFailed /\ frames_count >= 0)
       => AnimationSaved

\* C3 amended: the same for every frame count N >= 1; for N <= 0 no frame is
\* generated and the run ends in an IndexError with nothing saved.
C3_FramesInOrderForPositiveCount ==
  /\ CallsInOrder
  /\ StaticRunEnds
  /\ (pc \in {"done", "crashed"} /\ gif_mode /\ ~StageLookupFailed) =>
       IF frames_count >= 1 THEN AnimationSaved
       ELSE /\ pc = "crashed" /\ error = "IndexError in save"
            /\ gen_log = <<>> /\ frames = <<>> /\ saved = <<>>

\* an animation of more than one frame has been saved
C3_Witness ==
  /\ pc = "done" /\ gif_mode /\ frames_count >= 2
  /\ Len(saved[1].frames) = frames_count
  /\ saved[1].frames[2].rotation = <<1, frames_count>>

\* C4: the four storm attributes are drawn once, before the first frame, and
\* every frame's panel is drawn with those values; no step of a frame, the
\* reseeding of the reflectivity generator included, changes them.
C4_AttributesDrawnOnce ==
  [][ /\ attrs' # attrs =>
           (pc = "parsed" /\ gen_log = <<>> /\ attrs = <<>>
              /\ attrs' = <<DrawAttributes(rng)>>)
      /\ panel_log' # panel_log =>
           (attrs' = attrs /\ panel_log' = Append(panel_log, attrs[1]))
      /\ gen_log' # gen_log => attrs # <<>> ]_vars

\* the panel of a second frame has been drawn, after a reflectivity frame
\* reseeded the random source
C4_Witness ==
  /\ Len(panel_log) >= 2 /\ product = "REFLECTIVITY"
  /\ rng.seed = 42
  /\ panel_log[2] = attrs[1]

\* C6: a run given --intensity n uses max(1, min(99, n)) wherever it uses
\* the intensity: above 99 it is 99, below 1 it is 1, and every generator is
\* called with an intensity in 1..99.
C6_IntensityClamped ==
  /\ \A k \in 1..Len(gen_log) : gen_log[k].intensity \in 1..99
  /\ (pc # "start" /\ argv.intensity # <<>>) =>
       LET n == argv.intensity[1]
           expected == IF n > 99 THEN 99 ELSE IF n < 1 THEN 1 ELSE n
       IN  /\ intensity = expected
           /\ \A k \in 1..Len(gen_log) : gen_log[k].intensity = expected

\* a generator has been called in a run given --intensity150
C6_Witness ==
  /\ argv.intensity = <<150>> /\ Len(gen_log) >= 1
  /\ gen_log[1].intensity = 99

\* C7: a run given a --stage outside {1, 2, 3} ends in a fatal error and
\* writes no output file, whatever the product and the mode.
C7_InvalidStageWritesNothing ==
  (argv.stage # <<>> /\ argv.stage[1] \notin {1, 2, 3})
    => (saved = <<>> /\ pc # "done")

CompositorLayers ==
  {"base", "product", "grid", "blind_spot", "labels", "colorbar", "attributes"}

\* C9: every frame generate_frame returns holds the product layer over the
\* base image, the grid, the blind-spot disc, the labels, the colour bar and
\* the storm-attributes panel, and the polygon overlay too when the polygon
\* is enabled.
C9_AllLayersInFrame ==
  \A k \in 1..Len(frames) :
    /\ CompositorLayers \subseteq frames[k].layers
    /\ polygon_enabled => "polygon" \in frames[k].layers

InMarkedPair(img, q, threshold) ==
  \E x \in 0..(MaxImgWidth + 1) :
    /\ <<x, q[2]>> \in DOMAIN img /\ <<x + 1, q[2]>> \in DOMAIN img
    /\ q[1] \in {x, x + 1}
    /\ \/ img[<<x, q[2]>>][1] - img[<<x + 1, q[2]>>][1] > threshold
       \/ img[<<x + 1, q[2]>>][1] - img[<<x, q[2]>>][1] > threshold

\* C10: the overlay of add_gtg_shear_overlay is magenta with alpha 180 exactly
\* on the pixels of the horizontally adjacent pairs whose red channels differ
\* by more than the threshold, every other pixel of its result is the input
\* pixel, and generate_frame applies it to the velocity product only.
C10_ShearOverlayOnVelocityOnly ==
  pc = "layered" =>
    IF product = "VELOCITY"
    THEN \A q \in DOMAIN radar_in :
           /\ overlay[q] = Magenta <=> InMarkedPair(radar_in, q, 40)
           /\ ~InMarkedPair(radar_in, q, 40)
                => (overlay[q] = Transparent /\ radar_img[q] = radar_in[q])
    ELSE overlay = NoRaster /\ radar_img = radar_in

\* a velocity layer with a marked pair and a pixel left as it was; the pair's
\* left pixel has the smaller red channel
C10_Witness ==
  /\ pc = "layered" /\ product = "VELOCITY"
  /\ overlay[<<0, 0>>] = Magenta /\ overlay[<<1, 0>>] = Magenta
  /\ radar_in[<<0, 0>>][1] < radar_in[<<1, 0>>][1]
  /\ overlay[<<2, 0>>] = Transparent
  /\ radar_img[<<2, 0>>] = radar_in[<<2, 0>>]
  /\ radar_img[<<0, 0>>] # radar_in[<<0, 0>>]

(***************************************************************************)
(* The polygon and the random stream.                                      *)
(***************************************************************************)
\* the stream where generate_reflectivity_image leaves it: seeded with 42,
\* two draws for each lobe, one for each pixel of the disc, the speckle draws
StreamAfterReflectivity(stage_) ==
  RngAfterSpeckle(RngAfterLoop([seed |-> 42, pos |-> 2 * PyIndex(<<1, 2, 3>>, stage_ - 1)],
                               PyIndex(STORM_RADII, stage_ - 1)))

\* the stream a generator that does not reseed leaves, entered in state r
StreamContinued(r, stage_) ==
  RngAfterSpeckle(RngAfterLoop(r, PyIndex(STORM_RADII, stage_ - 1)))

\* the stream when the frame of the k-th polygon started: after the four
\* draws of the storm attributes, or where the polygon before left it
FrameEntryStreams(k) ==
  IF k = 1 THEN {Advance(r, 4) : r \in EntropyStates}
  ELSE {generate_severe_polygon(poly_log[k - 1].stream).rng}

\* C11: with the reflectivity generator the polygon of every frame is drawn
\* from the stream position the generator left, which the stage alone decides:
\* the vertex list is the same in every frame and every run, whatever the
\* intensity, the rotation and the earlier state of the random source; with the
\* other four generators the polygon is drawn from the stream continued from
\* where the frame found it.
C11_PolygonFixedForReflectivity ==
  pc # None =>
    \A k \in 1..Len(poly_log) :
      LET e == poly_log[k]
      IN  IF e.generator = "REFLECTIVITY"
          THEN /\ e.stream = StreamAfterReflectivity(e.stage)
               /\ e.points = generate_severe_polygon(StreamAfterReflectivity(e.stage)).points
               /\ \A j \in 1..Len(poly_log) : poly_log[j].points = e.points
          ELSE /\ e.stream.seed # 42
               /\ \E r \in FrameEntryStreams(k) :
                    /\ e.stream = StreamContinued(r, e.stage)
                    /\ e.points = generate_severe_polygon(StreamContinued(r, e.stage)).points

\* two reflectivity frames of one animation, at different rotations, with the
\* same polygon
C11_Witness ==
  /\ pc # None /\ gif_mode /\ polygon_enabled
  /\ GeneratorOf(product) = "REFLECTIVITY"
  /\ Len(poly_log) >= 2 /\ Len(frames) >= 2
  /\ frames[1].rotation # frames[2].rotation
  /\ poly_log[1].points = poly_log[2].points
  /\ Len(poly_log[1].points) >= 5
====
